---- MODULE Spec2Model ----
(***************************************************************************)
(* A model of ColorMatchGame (src/script.js): the round / difficulty /     *)
(* high-score engine of the Stroop colour game.                            *)
(*                                                                         *)
(* Every method of the class is an operator from a game object `s` (the    *)
(* fields of `this`, the DOM properties the methods write, the             *)
(* localStorage item and the callbacks scheduled with setTimeout) to the   *)
(* game object after the call.  Every event the browser can deliver (a     *)
(* click, a key press, a timer callback) is one action that runs its whole *)
(* handler.  Time is abstracted: a pending timer callback may run at any   *)
(* moment, so every real-time schedule is a behaviour of the model.        *)
(* Timers that only touch CSS classes (pulse, shake, timer-bar animation,  *)
(* feedback auto-hide) and the audio elements are left out.                *)
(***************************************************************************)
EXTENDS Integers, Sequences, FiniteSets, TLC

VARIABLES
    isPlaying,          \* this.isPlaying
    currentScore,       \* this.currentScore
    currentTimeLimit,   \* this.currentTimeLimit
    highScore,          \* this.highScore, a JavaScript value
    currentWord,        \* this.currentWord
    currentFontColor,   \* this.currentFontColor
    correctAnswer,      \* this.correctAnswer
    gameTimer,          \* this.gameTimer: what the handle refers to
    timers,             \* callbacks scheduled with setTimeout and still pending
    stored,             \* localStorage item 'colorMatchHighScore'
    buttonsDisabled,    \* colour buttons' .disabled
    gameOverScreen,     \* gameOverScreen.style.display
    highScoreMessage,   \* highScoreMessage.style.display
    event,              \* history: the kind of the last event whose handler
                        \* changed the game object
    streak,             \* history: the correct answers given, each while the
                        \* round awaited input, since startGame() when nothing
                        \* else has happened since but next rounds; else -1
    scoreAtTimeUp,      \* history: currentScore when the countdown of the
                        \* round awaiting input ran out, until the game ends
                        \* or another starts; else -1
    generating          \* the running call of generateRoundData: its position
                        \* and its locals wordIndex and fontColorIndex

vars == <<isPlaying, currentScore, currentTimeLimit, highScore, currentWord,
          currentFontColor, correctAnswer, gameTimer, timers, stored,
          buttonsDisabled, gameOverScreen, highScoreMessage, event, streak,
          scoreAtTimeUp, generating>>

-----------------------------------------------------------------------------
(* Bounds of the model *)

\* the largest number of correct answers in one session
MaxCorrect == 1
\* the same, for the sessions of SpecLong
MaxLong == 23
\* the largest number of pending timer callbacks in SpecLong
MaxLongTimers == 2
\* the largest number of pending timer callbacks
MaxTimers == 2
\* the largest number of Math.random() draws of one do-while loop
MaxDraws == 2
\* the largest number of correct answers in the sessions of SpecGenerate
MaxGenerate == 1

-----------------------------------------------------------------------------
(* Program constants *)

startTimeLimit == 3000
minTimeLimit == 800
timeDecrement == 100
scoreIncrement == 10

\* mutant: a palette of one colour
colors_single == <<"red">>

colors == <<"red", "blue", "green", "yellow">>
colorNames == <<"RED", "BLUE", "GREEN", "YELLOW">>

\* JavaScript array indexes of colors / colorNames
Indexes == 0 .. (Len(colors) - 1)

\* event.code values a key press can carry ("KeyA": any unmapped key)
KeyCodes == {"Space", "Enter", "KeyR", "Digit1", "KeyB", "Digit2", "KeyG",
             "Digit3", "KeyY", "Digit4", "Escape", "KeyA"}

\* keyMap of handleKeyPress; "" where keyMap[code] is undefined
keyMap(code) ==
    CASE code \in {"KeyR", "Digit1"} -> "red"
      [] code \in {"KeyB", "Digit2"} -> "blue"
      [] code \in {"KeyG", "Digit3"} -> "green"
      [] code \in {"KeyY", "Digit4"} -> "yellow"
      [] OTHER -> ""

Max(a, b) == IF a >= b THEN a ELSE b

-----------------------------------------------------------------------------
(* JavaScript values held by this.highScore *)

Num(n) == [t |-> "number", v |-> n]
NaN == [t |-> "NaN", v |-> 0]
undefined == [t |-> "undefined", v |-> 0]

\* a > b in JavaScript, a a number: false when b is NaN or undefined
Greater(a, b) == b.t = "number" /\ a > b.v

(* localStorage holds a string or nothing; a string is a sequence of
   characters *)
absent == [has |-> FALSE, str |-> <<>>]
Item(str) == [has |-> TRUE, str |-> str]

Digits == <<"0", "1", "2", "3", "4", "5", "6", "7", "8", "9">>
IsDigit(c) == \E i \in 1..10 : Digits[i] = c
DigitValue(c) == (CHOOSE i \in 1..10 : Digits[i] = c) - 1

\* Number.prototype.toString of an integer
RECURSIVE DigitString(_)
DigitString(n) ==
    IF n < 10 THEN <<Digits[n + 1]>>
    ELSE Append(DigitString(n \div 10), Digits[(n % 10) + 1])
toString(n) == IF n < 0 THEN <<"-">> \o DigitString(-n) ELSE DigitString(n)

\* the value of the longest digit prefix of str, continuing from acc
RECURSIVE DigitPrefix(_, _)
DigitPrefix(str, acc) ==
    IF str = <<>> \/ ~IsDigit(Head(str)) THEN acc
    ELSE DigitPrefix(Tail(str), 10 * acc + DigitValue(Head(str)))

\* parseInt(str): leading blanks, an optional sign, then decimal digits;
\* NaN when no digit follows
RECURSIVE parseInt(_)
parseInt(str) ==
    IF str = <<>> THEN NaN
    ELSE IF Head(str) = " " THEN parseInt(Tail(str))
    ELSE LET signed == Head(str) \in {"-", "+"}
             rest == IF signed THEN Tail(str) ELSE str
         IN  IF rest = <<>> \/ ~IsDigit(Head(rest)) THEN NaN
             ELSE IF Head(str) = "-" THEN Num(0 - DigitPrefix(rest, 0))
             ELSE Num(DigitPrefix(rest, 0))

\* what localStorage may hold when the page loads
StoredInputs == {absent, Item(<<"a", "b", "c">>)}

-----------------------------------------------------------------------------
(* The game object *)

This ==
    [isPlaying |-> isPlaying, currentScore |-> currentScore,
     currentTimeLimit |-> currentTimeLimit, highScore |-> highScore,
     currentWord |-> currentWord, currentFontColor |-> currentFontColor,
     correctAnswer |-> correctAnswer, gameTimer |-> gameTimer,
     timers |-> timers, stored |-> stored,
     buttonsDisabled |-> buttonsDisabled, gameOverScreen |-> gameOverScreen,
     highScoreMessage |-> highScoreMessage]

\* the bounds of the model: at most maxCorrect correct answers in a session
\* and maxTimers pending timer callbacks
Within(maxCorrect, maxTimers) ==
    /\ currentScore <= maxCorrect * scoreIncrement
    /\ timers.handleTimeUp + timers.startNewRound + timers.endGame <= maxTimers

\* the variables take the fields of s
Assign(s) ==
    /\ isPlaying' = s.isPlaying
    /\ currentScore' = s.currentScore
    /\ currentTimeLimit' = s.currentTimeLimit
    /\ highScore' = s.highScore
    /\ currentWord' = s.currentWord
    /\ currentFontColor' = s.currentFontColor
    /\ correctAnswer' = s.correctAnswer
    /\ gameTimer' = s.gameTimer
    /\ timers' = s.timers
    /\ stored' = s.stored
    /\ buttonsDisabled' = s.buttonsDisabled
    /\ gameOverScreen' = s.gameOverScreen
    /\ highScoreMessage' = s.highScoreMessage

\* a countdown is pending that this.gameTimer does not name
OrphanCountdown ==
    timers.handleTimeUp > (IF gameTimer = "pending" THEN 1 ELSE 0)

(* The states of the engine *)
Idle == ~isPlaying /\ gameOverScreen = "none"
GameOver == ~isPlaying /\ gameOverScreen = "flex"
AwaitingInput == isPlaying /\ ~buttonsDisabled
RoundResolved == isPlaying /\ buttonsDisabled

\* the history variables after an event of this kind
History(kind) ==
    /\ event' = IF kind = "none" THEN event ELSE kind
    /\ streak' =
          CASE kind = "start" -> 0
            [] kind = "correct" ->
                 IF streak >= 0 /\ AwaitingInput THEN streak + 1 ELSE -1
            [] kind \in {"round", "none"} -> streak
            [] OTHER -> -1
    /\ scoreAtTimeUp' =
          CASE kind = "timeup" /\ AwaitingInput -> currentScore
            [] kind \in {"start", "end", "exit", "menu"} -> -1
            [] OTHER -> scoreAtTimeUp

\* no call of generateRoundData is running
NotGenerating ==
    [pc |-> "none", wordIndex |-> -1, fontColorIndex |-> -1, redrawn |-> FALSE]

\* the handler of an event of this kind leaves the game object as s
Becomes(s, kind) ==
    \E after \in {s} :
        /\ Assign(after) /\ History(IF after = This THEN "none" ELSE kind)
        /\ UNCHANGED generating

\* the same, the handler leaving one of the game objects of a set: what it
\* leaves depends on the random values it consumes
BecomesOneOf(results, kind) ==
    \E after \in results :
        /\ Assign(after) /\ History(IF after = This THEN "none" ELSE kind)
        /\ UNCHANGED generating

-----------------------------------------------------------------------------
(* Timers.  timers counts the pending callbacks by the method they call.   *)
(* gameTimer is "null" before the first countdown, "pending" while the     *)
(* timer it names is a pending handleTimeUp callback, and "stale" once     *)
(* that timer has fired or been cleared.  A pending handleTimeUp callback  *)
(* that gameTimer does not name can no longer be cleared.                  *)

\* setTimeout(() => this.<method>(), delay)
setTimeout(s, method) ==
    [s EXCEPT !.timers = [@ EXCEPT ![method] = @ + 1]]

\* clearTimeout(this.gameTimer)
clearTimeout(s) ==
    IF s.gameTimer = "pending"
    THEN [s EXCEPT !.timers = [@ EXCEPT !.handleTimeUp = @ - 1],
                   !.gameTimer = "stale"]
    ELSE s

-----------------------------------------------------------------------------
(* Methods of ColorMatchGame *)

\* loadHighScore(): savedHighScore ? parseInt(savedHighScore) : 0
\* (null and the empty string are falsy)
loadHighScore(s) ==
    [s EXCEPT !.highScore =
        IF s.stored.has /\ s.stored.str # <<>> THEN parseInt(s.stored.str)
        ELSE Num(0)]

\* saveHighScore(): localStorage.setItem(key, this.highScore.toString())
saveHighScore(s) == [s EXCEPT !.stored = Item(toString(s.highScore.v))]

\* new ColorMatchGame() with localStorage holding item.  When getItem throws,
\* the exception leaves the constructor at loadHighScore(): the listeners
\* are registered already and this.highScore was never assigned.
constructor(item, getItemThrows) ==
    LET s == [isPlaying |-> FALSE, currentScore |-> 0,
              currentTimeLimit |-> startTimeLimit, highScore |-> undefined,
              currentWord |-> "", currentFontColor |-> "",
              correctAnswer |-> "", gameTimer |-> "null",
              timers |-> [handleTimeUp |-> 0, startNewRound |-> 0,
                          endGame |-> 0],
              stored |-> item, buttonsDisabled |-> FALSE,
              gameOverScreen |-> "none", highScoreMessage |-> "none"]
    IN  IF getItemThrows THEN s ELSE loadHighScore(s)

enableColorButtons(s) == [s EXCEPT !.buttonsDisabled = FALSE]
disableColorButtons(s) == [s EXCEPT !.buttonsDisabled = TRUE]

\* the do-while loop of generateRoundData: draws are the successive values
\* of Math.floor(Math.random() * colors.length); the loop ends at the first
\* one that differs from wordIndex
RECURSIVE drawFontColorIndex(_, _)
drawFontColorIndex(draws, wordIndex) ==
    IF Head(draws) = wordIndex THEN drawFontColorIndex(Tail(draws), wordIndex)
    ELSE Head(draws)

\* the random values one call of generateRoundData can consume: a word
\* index, then the draws of the loop: rejected ones, all equal to the word
\* index, and the one it accepts
RandomInputs ==
    {[wordIndex |-> p[1],
      draws |-> [i \in 1..p[3] |-> IF i = p[3] THEN p[2] ELSE p[1]]] :
        p \in {q \in Indexes \X Indexes \X (1..MaxDraws) : q[1] # q[2]}}

\* the random input of a handler that calls Math.random() / does not
Random(consumed) ==
    IF consumed THEN RandomInputs ELSE {[wordIndex |-> 0, draws |-> <<1>>]}

\* mutant: the font colour is drawn once, with no redraw
generateRoundData_firstDraw(s, wordIndex, draws) ==
    [s EXCEPT !.currentWord = colorNames[wordIndex + 1],
              !.currentFontColor = colors[draws[1] + 1],
              !.correctAnswer = colors[draws[1] + 1]]

generateRoundData(s, wordIndex, draws) ==
    LET fontColorIndex == drawFontColorIndex(draws, wordIndex)
    IN  [s EXCEPT !.currentWord = colorNames[wordIndex + 1],
                  !.currentFontColor = colors[fontColorIndex + 1],
                  !.correctAnswer = colors[fontColorIndex + 1]]

\* startTimer(): the new countdown's handle overwrites this.gameTimer
startTimer(s) == [setTimeout(s, "handleTimeUp") EXCEPT !.gameTimer = "pending"]

startNewRound(s, wordIndex, draws) ==
    IF ~s.isPlaying THEN s
    ELSE startTimer(enableColorButtons(generateRoundData(s, wordIndex, draws)))

\* mutant: the time limit is not reset
startGame_keepLimit(s, wordIndex, draws) ==
    startNewRound([s EXCEPT !.isPlaying = TRUE,
                            !.currentScore = 0,
                            !.gameOverScreen = "none"],
                  wordIndex, draws)

startGame(s, wordIndex, draws) ==
    startNewRound([s EXCEPT !.isPlaying = TRUE,
                            !.currentScore = 0,
                            !.currentTimeLimit = startTimeLimit,
                            !.gameOverScreen = "none"],
                  wordIndex, draws)

\* mutant: the score is incremented, not increased by 10
handleCorrectAnswer_plusOne(s) ==
    setTimeout([s EXCEPT !.currentScore = @ + 1,
                         !.currentTimeLimit = Max(minTimeLimit, @ - timeDecrement)],
               "startNewRound")

\* mutant: the time limit is decreased with no floor
handleCorrectAnswer_noFloor(s) ==
    setTimeout([s EXCEPT !.currentScore = @ + scoreIncrement,
                         !.currentTimeLimit = @ - timeDecrement],
               "startNewRound")

handleCorrectAnswer(s) ==
    setTimeout([s EXCEPT !.currentScore = @ + scoreIncrement,
                         !.currentTimeLimit = Max(minTimeLimit, @ - timeDecrement)],
               "startNewRound")

handleIncorrectAnswer(s) == setTimeout(s, "endGame")

handleTimeUp(s) == setTimeout(disableColorButtons(s), "endGame")

handleColorClick(s, selectedColor) ==
    IF ~s.isPlaying THEN s
    ELSE LET s1 == disableColorButtons(clearTimeout(s))
         IN  IF selectedColor = s1.correctAnswer THEN handleCorrectAnswer(s1)
             ELSE handleIncorrectAnswer(s1)

showGameOverScreen(s, isNewHighScore) ==
    [s EXCEPT !.highScoreMessage = IF isNewHighScore THEN "block" ELSE "none",
              !.gameOverScreen = "flex"]

\* mutant: the score becomes the high score without being compared
endGame_noCompare(s, setItemThrows) ==
    LET s1 == clearTimeout([s EXCEPT !.isPlaying = FALSE])
        s2 == [s1 EXCEPT !.highScore = Num(s1.currentScore)]
    IN  IF setItemThrows THEN s2
        ELSE showGameOverScreen(saveHighScore(s2), TRUE)

\* endGame().  When localStorage.setItem throws, the exception leaves
\* endGame at saveHighScore(): the game-over screen is not shown.
endGame(s, setItemThrows) ==
    LET s1 == clearTimeout([s EXCEPT !.isPlaying = FALSE])
    IN  IF Greater(s1.currentScore, s1.highScore)
        THEN LET s2 == [s1 EXCEPT !.highScore = Num(s1.currentScore)]
             IN  IF setItemThrows THEN s2
                 ELSE showGameOverScreen(saveHighScore(s2), TRUE)
        ELSE showGameOverScreen(s1, FALSE)

\* mutant: exitGame without its guard
exitGame_noGuard(s) ==
    [clearTimeout([s EXCEPT !.isPlaying = FALSE]) EXCEPT !.currentScore = 0]

\* mutant: exitGame evaluates the high score as endGame does
exitGame_evaluates(s) ==
    IF ~s.isPlaying THEN s
    ELSE LET s1 == clearTimeout([s EXCEPT !.isPlaying = FALSE])
             s2 == IF Greater(s1.currentScore, s1.highScore)
                   THEN saveHighScore([s1 EXCEPT !.highScore = Num(s1.currentScore)])
                   ELSE s1
         IN  [s2 EXCEPT !.currentScore = 0]

exitGame(s) ==
    IF ~s.isPlaying THEN s
    ELSE [clearTimeout([s EXCEPT !.isPlaying = FALSE]) EXCEPT !.currentScore = 0]

returnToMainMenu(s) ==
    [s EXCEPT !.gameOverScreen = "none", !.currentScore = 0, !.isPlaying = FALSE]

restartGame(s, wordIndex, draws) ==
    startGame([s EXCEPT !.gameOverScreen = "none"], wordIndex, draws)

handleKeyPress(s, code, wordIndex, draws) ==
    IF ~s.isPlaying
    THEN IF code \in {"Space", "Enter"} /\ ~s.isPlaying
         THEN startGame(s, wordIndex, draws)
         ELSE s
    ELSE LET s1 == IF keyMap(code) # "" THEN handleColorClick(s, keyMap(code))
                   ELSE s
         IN  IF code = "Escape" THEN exitGame(s1) ELSE s1

-----------------------------------------------------------------------------------------------------------------------------------------------------
(* The state after construction *)

\* the page has loaded with localStorage holding item
Loaded(item, getItemThrows) ==
    LET s == constructor(item, getItemThrows)
    IN  /\ isPlaying = s.isPlaying
        /\ currentScore = s.currentScore
        /\ currentTimeLimit = s.currentTimeLimit
        /\ highScore = s.highScore
        /\ currentWord = s.currentWord
        /\ currentFontColor = s.currentFontColor
        /\ correctAnswer = s.correctAnswer
        /\ gameTimer = s.gameTimer
        /\ timers = s.timers
        /\ stored = s.stored
        /\ buttonsDisabled = s.buttonsDisabled
        /\ gameOverScreen = s.gameOverScreen
        /\ highScoreMessage = s.highScoreMessage
        /\ event = "load"
        /\ streak = -1
        /\ scoreAtTimeUp = -1
        /\ generating = NotGenerating

\* localStorage works, or it is inaccessible: getItem throws and what it
\* holds plays no part
Init ==
    \/ \E item \in StoredInputs : Loaded(item, FALSE)
    \/ Loaded(absent, TRUE)

\* a returning player: the stored high score is one that no session within
\* MaxLong correct answers beats
InitLong == Loaded(Item(toString(MaxLong * scoreIncrement)), FALSE)

-----------------------------------------------------------------------------
(* Events: the listeners of setupEventListeners and the timer callbacks *)

\* startBtn click
ClickStart ==
    BecomesOneOf({startGame(This, r.wordIndex, r.draws) : r \in Random(TRUE)},
                 "start")

\* exitBtn click
ClickExit == Becomes(exitGame(This), "exit")

\* restartBtn click
ClickRestart ==
    BecomesOneOf({restartGame(This, r.wordIndex, r.draws) : r \in Random(TRUE)},
                 "start")

\* menuBtn click
ClickMenu == Becomes(returnToMainMenu(This), "menu")

\* a colour button's click; a disabled button dispatches no click
ClickColor(color) ==
    /\ ~buttonsDisabled
    /\ Becomes(handleColorClick(This, color),
               IF color = correctAnswer THEN "correct" ELSE "wrong")

\* keydown on the document
KeyDown(code) ==
    BecomesOneOf({handleKeyPress(This, code, r.wordIndex, r.draws) :
                    r \in Random(~isPlaying /\ code \in {"Space", "Enter"})},
                CASE ~isPlaying -> "start"
                  [] isPlaying /\ code = "Escape" -> "exit"
                  [] isPlaying /\ keyMap(code) # ""
                       /\ keyMap(code) = correctAnswer -> "correct"
                  [] OTHER -> "wrong")

\* the callback of a pending timer runs and the timer is pending no more
Expire(s, method) == [s EXCEPT !.timers = [@ EXCEPT ![method] = @ - 1]]

\* a countdown set by startTimer runs out: the one this.gameTimer names
TimerHandleTimeUp ==
    /\ gameTimer = "pending"
    /\ Becomes(handleTimeUp([Expire(This, "handleTimeUp") EXCEPT !.gameTimer = "stale"]),
               "timeup")

\* a countdown runs out whose handle this.gameTimer no longer holds
\* (startTimer overwrote it before it was cleared)
TimerOrphanTimeUp ==
    /\ OrphanCountdown
    /\ Becomes(handleTimeUp(Expire(This, "handleTimeUp")), "timeup")

\* the 1000 ms delay set by handleCorrectAnswer elapses
TimerStartNewRound ==
    /\ timers.startNewRound > 0
    /\ BecomesOneOf({startNewRound(Expire(This, "startNewRound"),
                                   r.wordIndex, r.draws) : r \in Random(isPlaying)},
                    "round")

\* the 1500 ms delay set by handleIncorrectAnswer or handleTimeUp elapses
TimerEndGame ==
    /\ timers.endGame > 0
    /\ \E setItemThrows \in BOOLEAN :
        Becomes(endGame(Expire(This, "endGame"), setItemThrows), "end")

ColorButtons == {colors[i] : i \in 1..Len(colors)}

\* the events, within the bounds
Events(maxCorrect, maxTimers) ==
    \/ ClickStart /\ Within(maxCorrect, maxTimers)'
    \/ ClickExit /\ Within(maxCorrect, maxTimers)'
    \/ ClickRestart /\ Within(maxCorrect, maxTimers)'
    \/ ClickMenu /\ Within(maxCorrect, maxTimers)'
    \/ \E color \in ColorButtons : ClickColor(color) /\ Within(maxCorrect, maxTimers)'
    \/ \E code \in KeyCodes : KeyDown(code) /\ Within(maxCorrect, maxTimers)'
    \/ TimerHandleTimeUp /\ Within(maxCorrect, maxTimers)'
    \/ TimerOrphanTimeUp /\ Within(maxCorrect, maxTimers)'
    \/ TimerStartNewRound /\ Within(maxCorrect, maxTimers)'
    \/ TimerEndGame /\ Within(maxCorrect, maxTimers)'

Next == Events(MaxCorrect, MaxTimers)

Spec == Init /\ [][Next]_vars

\* long sessions: the difficulty ramp down to minTimeLimit
NextLong == Events(MaxLong, MaxLongTimers)

SpecLong == InitLong /\ [][NextLong]_vars

-----------------------------------------------------------------------------
(* generateRoundData step by step.  A handler runs to completion before    *)
(* the next event is delivered, so while a call is running the only steps  *)
(* are its own: the draw of the word, then the do-while loop, one draw     *)
(* and one test at a time, with no bound on the number of draws.  The      *)
(* sessions are those of a player who answers every round correctly.       *)

\* startGame() up to its call of startNewRound()
startGame_reset(s) ==
    [s EXCEPT !.isPlaying = TRUE,
              !.currentScore = 0,
              !.currentTimeLimit = startTimeLimit,
              !.gameOverScreen = "none"]

\* startNewRound() after its call of generateRoundData()
startNewRound_show(s) == startTimer(enableColorButtons(s))

\* the step of the running call leaves the game object as s and the call
\* as g
Generating(s, g) ==
    /\ Assign(s)
    /\ generating' = g
    /\ UNCHANGED <<event, streak, scoreAtTimeUp>>

\* the start button is clicked: startGame() runs up to generateRoundData()
StartCalls ==
    /\ generating.pc = "none"
    /\ ~isPlaying
    /\ Assign(startGame_reset(This))
    /\ History("start")
    /\ generating' = [NotGenerating EXCEPT !.pc = "word"]

\* the round awaiting input is answered correctly
AnswerCorrectly ==
    /\ generating.pc = "none"
    /\ AwaitingInput
    /\ currentScore < MaxGenerate * scoreIncrement
    /\ Assign(handleColorClick(This, correctAnswer))
    /\ History("correct")
    /\ UNCHANGED generating

\* the next-round delay elapses: startNewRound() runs up to
\* generateRoundData()
NextRoundCalls ==
    /\ generating.pc = "none"
    /\ timers.startNewRound > 0
    /\ isPlaying
    /\ Assign(Expire(This, "startNewRound"))
    /\ History("round")
    /\ generating' = [NotGenerating EXCEPT !.pc = "word"]

\* const wordIndex = Math.floor(Math.random() * this.colorNames.length);
\* this.currentWord = this.colorNames[wordIndex];
PickWord ==
    /\ generating.pc = "word"
    /\ \E index \in Indexes :
          Generating([This EXCEPT !.currentWord = colorNames[index + 1]],
                     [generating EXCEPT !.pc = "do", !.wordIndex = index])

\* do { fontColorIndex = Math.floor(Math.random() * this.colors.length);
\* the draw yields index
PickFontColor(index) ==
    /\ generating.pc = "do"
    /\ Generating(This, [generating EXCEPT !.pc = "while",
                                           !.fontColorIndex = index])

\* } while (fontColorIndex === wordIndex); the condition holds
LoopAgain ==
    /\ generating.pc = "while"
    /\ generating.fontColorIndex = generating.wordIndex
    /\ Generating(This, [generating EXCEPT !.pc = "do", !.redrawn = TRUE])

\* the condition fails: this.currentFontColor = this.colors[fontColorIndex];
\* this.correctAnswer = this.currentFontColor; and the call returns
LoopExit ==
    /\ generating.pc = "while"
    /\ generating.fontColorIndex # generating.wordIndex
    /\ Generating([This EXCEPT
                     !.currentFontColor = colors[generating.fontColorIndex + 1],
                     !.correctAnswer = colors[generating.fontColorIndex + 1]],
                  [generating EXCEPT !.pc = "return"])

\* startNewRound() goes on after the call: buttons enabled, countdown set
Returns ==
    /\ generating.pc = "return"
    /\ Generating(startNewRound_show(This), NotGenerating)

NextGenerate ==
    \/ StartCalls
    \/ AnswerCorrectly
    \/ NextRoundCalls
    \/ PickWord
    \/ \E index \in Indexes : PickFontColor(index)
    \/ LoopAgain
    \/ LoopExit
    \/ Returns

\* the running handler goes on, and the random draw is fair: a value that
\* can be drawn again and again is drawn
FairDraws ==
    /\ WF_vars(PickWord) /\ WF_vars(LoopAgain) /\ WF_vars(LoopExit)
    /\ \A index \in Indexes : SF_vars(PickFontColor(index))

SpecGenerate ==
    /\ \E item \in StoredInputs : Loaded(item, FALSE)
    /\ [][NextGenerate]_vars
    /\ FairDraws

-----------------------------------------------------------------------------
(* Steps, named for the properties below *)

\* a colour is selected, by button or by key
ColorSelected ==
    \/ \E color \in ColorButtons : ClickColor(color)
    \/ \E code \in KeyCodes : keyMap(code) # "" /\ KeyDown(code)

\* startGame() is called
StartInvoked ==
    \/ ClickStart
    \/ ClickRestart
    \/ ~isPlaying /\ \E code \in {"Space", "Enter"} : KeyDown(code)

\* exitGame() is called
ExitInvoked == ClickExit \/ (isPlaying /\ KeyDown("Escape"))

\* a countdown runs out
TimeUp == TimerHandleTimeUp \/ TimerOrphanTimeUp

NoTimers == [handleTimeUp |-> 0, startNewRound |-> 0, endGame |-> 0]

\* the JavaScript index of x in array
IndexOf(array, x) == (CHOOSE i \in 1..Len(array) : array[i] = x) - 1

-----------------------------------------------------------------------------
(* C1: a colour selection delivered while the engine is not awaiting input
   (round resolved, idle or game over) changes neither the score, the time
   limit, the high score, isPlaying nor the pending timers. *)
C1_SelectionOutsideAwaitingInput ==
    [][(~AwaitingInput /\ ColorSelected)
         => UNCHANGED <<currentScore, currentTimeLimit, highScore, isPlaying,
                        timers, gameTimer>>]_vars

(* C2: once a round has been generated, the index of the displayed word
   differs from the index of the font colour, and correctAnswer is the
   font colour. *)
C2_RoundIsStroop ==
    currentWord # "" =>
        /\ IndexOf(colorNames, currentWord) # IndexOf(colors, currentFontColor)
        /\ correctAnswer = currentFontColor

C2_Witness ==
    isPlaying /\ currentWord = "RED" /\ currentFontColor = "blue"

(* C3: the score is always a non-negative multiple of 10, and a step that
   changes it either adds exactly 10, on a correct answer, or resets it to
   0, on start, exit or return to menu. *)
C3_ScoreSteps ==
    /\ currentScore >= 0 /\ currentScore % 10 = 0
    /\ [][/\ currentScore' >= 0 /\ currentScore' % 10 = 0
          /\ currentScore' # currentScore =>
                \/ currentScore' = currentScore + 10 /\ event' = "correct"
                \/ currentScore' = 0 /\ event' \in {"start", "exit", "menu"}]_vars

C3_Witness == isPlaying /\ currentScore = 10 /\ event = "correct"

(* C4: the time limit stays within 800..3000; it is 3000 right after
   start, never increases between two starts, and changes only on a correct
   answer, to max(800, previous - 100), or on start. *)
C4_TimeLimitSteps ==
    /\ 800 <= currentTimeLimit /\ currentTimeLimit <= 3000
    /\ [][/\ 800 <= currentTimeLimit' /\ currentTimeLimit' <= 3000
          /\ event' = "start" => currentTimeLimit' = 3000
          /\ currentTimeLimit' > currentTimeLimit => event' = "start"
          /\ currentTimeLimit' # currentTimeLimit =>
                \/ event' = "start"
                \/ /\ event' = "correct"
                   /\ currentTimeLimit' = Max(800, currentTimeLimit - 100)]_vars

C4_Witness ==
    isPlaying /\ event = "correct" /\ currentTimeLimit = 800 /\ currentScore = 230

(* C5: the high score never decreases, and the only step that changes it
   is endGame with a score strictly greater than the high score before. *)
C5_HighScoreSteps ==
    [][highScore' # highScore =>
         /\ event' = "end"
         /\ highScore.t = "number"
         /\ currentScore > highScore.v
         /\ highScore'.t = "number"
         /\ highScore'.v > highScore.v]_vars

C5_Witness ==
    event = "end" /\ highScore = Num(10) /\ stored = Item(<<"1", "0">>)

(* C6: after start followed by k consecutive correct answers, each given
   while the round awaited input, the score is 10 k and the time limit is
   max(800, 3000 - 100 k): 50 and 2500 for k = 5, and 800 from k = 22 on. *)
C6_Ramp ==
    streak >= 0 =>
        /\ currentScore = 10 * streak
        /\ currentTimeLimit = Max(800, 3000 - 100 * streak)
        /\ (streak = 5 => currentScore = 50 /\ currentTimeLimit = 2500)
        /\ (streak >= 22 => currentTimeLimit = 800)

C6_Witness == streak = 23 /\ currentScore = 230 /\ currentTimeLimit = 800

(* C7: an accepted exit cancels every pending timer, the countdown, the
   next-round delay and the game-over delay, and leaves the engine idle.
   Stated for an exit from a state with no countdown but the one gameTimer
   names, the case the claim describes. *)
C7_ExitCancelsTimers ==
    [][(isPlaying /\ ExitInvoked /\ ~OrphanCountdown)
         => (timers' = NoTimers /\ Idle')]_vars

(* C8: a countdown that runs out while the round awaits input changes
   neither the score nor the time limit, and the endGame that follows
   leaves the game over with the score it had when the countdown ran out. *)
C8_TimeUpEndsGame ==
    /\ [][(AwaitingInput /\ TimeUp)
            => UNCHANGED <<currentScore, currentTimeLimit>>]_vars
    /\ [][(scoreAtTimeUp >= 0 /\ TimerEndGame)
            => (GameOver' /\ currentScore' = scoreAtTimeUp)]_vars

(* C9: endGame sets isPlaying to false and leaves the high score at the
   maximum of the high score before and the score; the new-high-score
   message is shown on the game-over screen exactly when the score is
   greater than the high score before, and the new high score is then
   written to the store in the same step. *)
C9_EndGameHighScore ==
    [][(TimerEndGame /\ highScore.t = "number") =>
         /\ isPlaying' = FALSE
         /\ highScore' = Num(Max(highScore.v, currentScore))
         /\ gameOverScreen' = "flex"
         /\ (highScoreMessage' = "block") <=> (currentScore > highScore.v)
         /\ (currentScore > highScore.v
               => stored' = Item(toString(currentScore)))]_vars

(* C10: startGame called while a session is active, and restartGame or
   returnToMainMenu called in a state other than game over, change neither
   isPlaying, the score, the time limit, the round nor the pending timers. *)
C10_InvalidCallsAreNoOps ==
    [][(\/ isPlaying /\ ClickStart
        \/ ~GameOver /\ (ClickRestart \/ ClickMenu))
         => UNCHANGED <<isPlaying, currentScore, currentTimeLimit,
                        currentWord, currentFontColor, correctAnswer,
                        timers, gameTimer>>]_vars

(* C11: exitGame called while the engine is not active, by the exit button
   or by the Escape key, leaves isPlaying, the score, the time limit, the
   high score and the pending timers as they are. *)
C11_ExitWhenInactive ==
    ~isPlaying =>
        \A s \in {exitGame(This), handleKeyPress(This, "Escape", 0, <<1>>)} :
            /\ s.isPlaying = isPlaying
            /\ s.currentScore = currentScore
            /\ s.currentTimeLimit = currentTimeLimit
            /\ s.highScore = highScore
            /\ s.timers = timers
            /\ s.gameTimer = gameTimer

\* the game is over with a score and a timer still pending
C11_Witness == GameOver /\ currentScore = 10 /\ timers.startNewRound = 1

(* C12: an exit accepted while the engine is active sets isPlaying to false
   and the score to 0 and leaves the high score, the stored value and the
   time limit unchanged. *)
C12_ExitWhenActive ==
    [][(isPlaying /\ event' = "exit")
         => /\ isPlaying' = FALSE
            /\ currentScore' = 0
            /\ UNCHANGED <<highScore, stored, currentTimeLimit>>]_vars

\* the session was left after a correct answer, with a score above the
\* high score
C12_Witness ==
    /\ event = "exit" /\ ~isPlaying /\ currentScore = 0
    /\ currentTimeLimit = 2900 /\ highScore = Num(0) /\ stored = absent

\* str is a decimal integer: an optional sign, then digits only
IsIntegerString(str) ==
    LET digits == IF str # <<>> /\ Head(str) \in {"-", "+"} THEN Tail(str)
                  ELSE str
    IN  digits # <<>> /\ \A i \in 1..Len(digits) : IsDigit(digits[i])

(* C13: when the stored value is present but not an integer, the high
   score after construction is 0, and a session that then ends with a
   positive score makes that score the high score. *)
C13_UnparseableLoadsZero ==
    /\ (stored.has /\ ~IsIntegerString(stored.str)) => highScore = Num(0)
    /\ [][(event' = "end" /\ highScore.t = "NaN" /\ currentScore > 0)
            => highScore' = Num(currentScore)]_vars

(* C14: a failing store is ignored.  When nothing can be read from the
   store the high score after construction is 0, and every endGame, also
   one whose write fails, leaves the game over with its screen shown and
   a score above the high score recorded as the high score. *)
C14_StoreFailuresIgnored ==
    /\ ~stored.has => highScore = Num(0)
    /\ [][event' = "end"
            => /\ GameOver'
               /\ (Greater(currentScore, highScore)
                     => highScore' = Num(currentScore))]_vars

\* the game object s is idle as the engine is after exit or return to menu:
\* not playing, score 0, game-over screen hidden
IdleReset(s) == ~s.isPlaying /\ s.currentScore = 0 /\ s.gameOverScreen = "none"

(* C15: every reachable state is idle (not playing, score 0, game-over
   screen hidden), or active with exitGame leading to such a state, or
   game over with returnToMainMenu leading to such a state. *)
C15_NoStuckState ==
    \/ IdleReset(This)
    \/ isPlaying /\ IdleReset(exitGame(This))
    \/ GameOver /\ IdleReset(returnToMainMenu(This))

(* C16: at most one round countdown is pending at any time. *)
C16_OneCountdown == timers.handleTimeUp <= 1

(* C17: at most one delay set at the resolution of a round, the next-round
   delay or the game-over delay, is pending at any time. *)
C17_OneResolutionDelay == timers.startNewRound + timers.endGame <= 1

(* C18: endGame runs only while the round of the current session is
   resolved by a wrong answer or a timeout: never while the engine is idle
   or the game over, and never in a session that has seen only correct
   answers since it started. *)
C18_EndGameOnlyAfterFailure ==
    [][event' = "end" => (RoundResolved /\ streak < 0)]_vars

(* C19: while a round awaits input, its word, font colour and correct
   answer are replaced by startGame only. *)
C19_RoundStable ==
    [][(AwaitingInput /\ <<currentWord, currentFontColor, correctAnswer>>'
                           # <<currentWord, currentFontColor, correctAnswer>>)
         => event' = "start"]_vars

(* C20: generateRoundData terminates when the draws are fair: once its loop
   is entered, it is left with a font colour index that differs from the
   word index; and no step of the call changes anything of the engine but
   the word, the font colour and the correct answer. *)
C20_GenerateTerminates ==
    /\ (generating.pc = "do")
          ~> (/\ generating.pc = "return"
              /\ generating.fontColorIndex # generating.wordIndex
              /\ currentFontColor = colors[generating.fontColorIndex + 1])
    /\ [][generating.pc \in {"word", "do", "while"}
            => UNCHANGED <<isPlaying, currentScore, currentTimeLimit, highScore,
                           gameTimer, timers, stored, buttonsDisabled,
                           gameOverScreen, highScoreMessage>>]_vars

\* a call has returned after a redraw, in the second round of a session
C20_Witness ==
    generating.pc = "return" /\ generating.redrawn /\ currentScore = 10

====
